---- MODULE Spec2Model ----
(***************************************************************************)
(* Model of runtime/browser/android/xwalk_contents_io_thread_client.cc:    *)
(* the RfhToIoThreadClientMap registry (two maps under map_lock_), the     *)
(* ClientMapEntryUpdater web-contents observer, and the static entry       *)
(* points of XWalkContentsIoThreadClient (FromID, SubFrameCreated,         *)
(* RegisterPendingContents, Associate) run by a UI thread and an IO thread.*)
(***************************************************************************)
EXTENDS Integers, Sequences, FiniteSets, TLC

\* ------------------------------------------------------------------ bounds
\* How many ClientMapEntryUpdater observers Associate may attach to the
\* WebContents in one run.
MaxObservers == 2

\* ------------------------------------------------- the engine's frame objects
\* RenderFrameHost objects of one WebContents.  f1 and f2 occupy the main
\* frame-tree node (f2 is the host a cross-process navigation brings in), f3 is
\* a child frame of f1.
Frames == {"f1", "f2", "f3"}
NoFrame == "none"

Delegates == {"D1", "D2"}
NoDelegate == "null"

ProcessId(f) == IF f = "f2" THEN 2 ELSE 1
RoutingId(f) == IF f \in {"f1", "f2"} THEN 1 ELSE 2
GetFrameTreeNodeId(f) == IF f \in {"f1", "f2"} THEN 1 ELSE 2
ParentOf(f) == IF f = "f3" THEN "f1" ELSE NoFrame

\* pair<int,int>(rfh->GetProcess()->GetID(), rfh->GetRoutingID())
GetRenderFrameHostIdPair(f) == <<ProcessId(f), RoutingId(f)>>

IdPairs == {GetRenderFrameHostIdPair(f) : f \in Frames}
NodeIds == {GetFrameTreeNodeId(f) : f \in Frames}

\* --------------------------------------------------------- IoThreadClientData
\* struct IoThreadClientData { bool pending_association;
\*                             JavaObjectWeakGlobalRef io_thread_client; }
IoThreadClientData(pending, client) ==
  [pending_association |-> pending, io_thread_client |-> client]

\* IoThreadClientData::IoThreadClientData(): pending_association(false), and a
\* default-constructed (empty) weak reference.
DefaultClientData == IoThreadClientData(FALSE, NoDelegate)

\* HostsAndClientDataPair: pair<flat_set<RenderFrameHost*>, IoThreadClientData>
HostsAndClientDataPair(hosts, data) == [first |-> hosts, second |-> data]

\* What Get leaves when it returns false: *client untouched, a default record.
NotFound == [found |-> FALSE, data |-> DefaultClientData]

\* A RegisterPendingContents that leaves pending_association at its default.
PendingClientDataNotPending == IoThreadClientData(FALSE, NoDelegate)

\* RegisterPendingContents' client_data: default, pending_association = true.
PendingClientData == IoThreadClientData(TRUE, NoDelegate)

\* A RenderFrameCreated that leaves the record pending.
ObserverClientDataStillPending(d) == IoThreadClientData(TRUE, d)

\* ClientMapEntryUpdater::RenderFrameCreated's client_data: the observer's
\* jdelegate_, pending_association = false.
ObserverClientData(d) == IoThreadClientData(FALSE, d)

VARIABLES
  rfh_to_io_thread_client_,            \* map<pair<int,int>, IoThreadClientData>
  frame_tree_node_to_io_thread_client_,\* map<int, HostsAndClientDataPair>
  map_lock_,            \* the threads inside a critical section of map_lock_
  frameState,           \* engine: each RenderFrameHost is unborn, live or deleted
  mainFrame,            \* engine: web_contents->GetMainFrame(), or NoFrame
  observers,            \* the ClientMapEntryUpdaters attached, by their jdelegate_
  destroyed,            \* engine: the WebContents was destroyed
  collected,            \* delegates whose Java object was garbage collected
  subFrameMsg,          \* child frames whose creation the IO thread is yet to see
  uiCalls,              \* UI thread: registry calls the running callback still makes
  uiPc,                 \* UI thread: position inside the current registry call
  ioPc,                 \* IO thread: position inside SubFrameCreated
  ioChild,              \* IO thread: SubFrameCreated's child_rfh_id
  ioClientData,         \* IO thread: SubFrameCreated's local client_data
  failed,               \* the DCHECK / NOTREACHED sites that have fired
  crashed,              \* the process has aborted
  idSetBy,              \* history: the frame whose Set(rfh) last wrote an id entry
  registered,           \* history: frames with a completed Set(rfh), no Erase since
  erased,               \* history: frames with a completed Erase
  last                  \* the operation that completed in the last step, and what
                        \* it returned

vars == <<rfh_to_io_thread_client_, frame_tree_node_to_io_thread_client_,
          map_lock_, frameState, mainFrame, observers, destroyed, collected,
          subFrameMsg, uiCalls, uiPc, ioPc, ioChild, ioClientData,
          failed, crashed, idSetBy, registered, erased, last>>

regVars == <<rfh_to_io_thread_client_, frame_tree_node_to_io_thread_client_>>
engineVars == <<frameState, mainFrame, observers, destroyed, subFrameMsg>>
uiVars == <<uiCalls, uiPc>>
ioVars == <<ioPc, ioChild, ioClientData>>
histVars == <<idSetBy, registered, erased>>

\* ------------------------------------------------------ registry primitives
\* A registry whose operations do not exclude each other.
CanAcquireUnlocked(t) == TRUE

\* base::AutoLock lock(map_lock_): thread t may enter when nobody is inside.
CanAcquire(t) == map_lock_ = {}

\* An id-pair Set that, like map::insert, keeps an entry that is there.
\* A write that removes the key when it is already present.
SetIdEntryToggling(m, id, client) ==
  IF id \in DOMAIN m
  THEN [i \in DOMAIN m \ {id} |-> m[i]]
  ELSE [i \in DOMAIN m \cup {id} |-> client]

\* A write that drops every other key.
SetIdEntryClearingOthers(m, id, client) == [i \in {id} |-> client]

SetIdEntryKeepingOld(m, id, client) ==
  [i \in DOMAIN m \cup {id} |-> IF i \in DOMAIN m THEN m[i] ELSE client]

\* rfh_to_io_thread_client_[rfh_id] = client;
SetIdEntry(m, id, client) ==
  [i \in DOMAIN m \cup {id} |-> IF i = id THEN client ELSE m[i]]

\* rfh_to_io_thread_client_.erase(rfh_id);
EraseIdEntry(m, id) == [i \in DOMAIN m \ {id} |-> m[i]]

\* frame_tree_node_to_io_thread_client_[frame_tree_node_id]: operator[] makes a
\* default entry (no hosts, default IoThreadClientData) when there is none.
NodeEntry(m, n) ==
  IF n \in DOMAIN m THEN m[n] ELSE HostsAndClientDataPair({}, DefaultClientData)

\* A Set(rfh, client) that makes rfh the node's only host.
SetNodeEntryReplacingHosts(m, n, f, client) ==
  [i \in DOMAIN m \cup {n} |->
     IF i = n THEN HostsAndClientDataPair({f}, client) ELSE m[i]]

\* Set(rfh, client), the frame-tree-node half:
\*   current_entry.second = client; current_entry.first.insert(rfh);
SetNodeEntry(m, n, f, client) ==
  [i \in DOMAIN m \cup {n} |->
     IF i = n THEN HostsAndClientDataPair(NodeEntry(m, n).first \cup {f}, client)
     ELSE m[i]]

\* An Erase(rfh) whose erase always reports one element removed.
NumErasedAlwaysOne(m, n, f) == 1

\* Erase(rfh): size_t num_erased = current_entry.first.erase(rfh);
NumErased(m, n, f) == IF f \in NodeEntry(m, n).first THEN 1 ELSE 0

\* An Erase(rfh) that leaves rfh among the node's hosts.
EraseHostKeepingHost(m, n, f) ==
  [i \in DOMAIN m \cup {n} |-> NodeEntry(m, n)]

\* Erase(rfh): current_entry.first.erase(rfh);
EraseHost(m, n, f) ==
  [i \in DOMAIN m \cup {n} |->
     IF i = n
     THEN HostsAndClientDataPair(NodeEntry(m, n).first \ {f}, NodeEntry(m, n).second)
     ELSE m[i]]

\* An Erase(rfh) that never drops the node's entry.
EraseNodeNever(m, n) == m

\* Erase(rfh): if (current_entry.first.empty()) map.erase(frame_tree_node_id);
EraseNodeIfEmpty(m, n) ==
  IF n \in DOMAIN m /\ m[n].first = {}
  THEN [i \in DOMAIN m \ {n} |-> m[i]]
  ELSE m

\* A Get by id pair that reports success whether or not it found an entry.
\* A Get(rfh_id, &client) that reports success without copying the record out.
GetByIdNotCopying(m, id) ==
  IF id \in DOMAIN m THEN [found |-> TRUE, data |-> DefaultClientData]
  ELSE [found |-> FALSE, data |-> DefaultClientData]

GetByIdAlwaysTrue(m, id) ==
  IF id \in DOMAIN m THEN [found |-> TRUE, data |-> m[id]]
  ELSE [found |-> TRUE, data |-> DefaultClientData]

\* bool Get(pair<int,int> rfh_id, IoThreadClientData* client)
GetById(m, id) ==
  IF id \in DOMAIN m THEN [found |-> TRUE, data |-> m[id]]
  ELSE NotFound

\* bool Get(int frame_tree_node_id, IoThreadClientData* client): the record
\* only (iterator->second.second), never the hosts set.
GetByNode(m, n) ==
  IF n \in DOMAIN m THEN [found |-> TRUE, data |-> m[n].second]
  ELSE NotFound

\* ------------------------------------------------- XWalkContentsIoThreadClient
\* A reference that still yields its referent after the referent was collected.
ResolveAsStrongRef(ref, gc) == ref

\* client_data.io_thread_client.get(env): a weak reference resolves to null
\* when it is empty or its referent has been collected.
ResolveWeakRef(ref, gc) == IF ref = NoDelegate \/ ref \in gc THEN NoDelegate ELSE ref

\* The unique_ptr<XWalkContentsIoThreadClient> FromID returns; found = FALSE is
\* the null unique_ptr.
NoHandle ==
  [found |-> FALSE, pending_association_ |-> FALSE, java_object_ |-> NoDelegate]

\* new XWalkContentsIoThreadClient(client_data.pending_association, java_delegate)
MakeHandle(got, gc) ==
  IF ~got.found THEN NoHandle
  ELSE [found |-> TRUE,
        pending_association_ |-> got.data.pending_association,
        java_object_ |-> ResolveWeakRef(got.data.io_thread_client, gc)]

\* FromID(int render_process_id, int render_frame_id)
FromID(m, id, gc) == MakeHandle(GetById(m, id), gc)

\* FromID(int frame_tree_node_id)
FromFrameTreeNodeId(m, n, gc) == MakeHandle(GetByNode(m, n), gc)

\* DCHECK(!client_data.pending_association || java_delegate.is_null()), which
\* both FromID overloads make on the record they found.
FromIDCheckHolds(handle) ==
  handle.found => (~handle.pending_association_ \/ handle.java_object_ = NoDelegate)

\* What the Java delegate answers to the queries: the application's business.
CacheModes == {"LOAD_DEFAULT", "LOAD_NO_CACHE"}
InterceptResults == {"absent", "response"}
Policies ==
  [cacheMode : CacheModes, intercept : InterceptResults,
   blockContentUrls : BOOLEAN, blockFileUrls : BOOLEAN,
   blockNetworkLoads : BOOLEAN, acceptThirdPartyCookies : BOOLEAN]

\* The queries of a handle whose delegate answers by policy p.
GetCacheMode(h, p) ==
  IF h.java_object_ = NoDelegate THEN "LOAD_DEFAULT" ELSE p.cacheMode
ShouldInterceptRequest(h, p) ==
  IF h.java_object_ = NoDelegate THEN "absent" ELSE p.intercept
ShouldBlockContentUrls(h, p) ==
  IF h.java_object_ = NoDelegate THEN FALSE ELSE p.blockContentUrls
ShouldBlockFileUrls(h, p) ==
  IF h.java_object_ = NoDelegate THEN FALSE ELSE p.blockFileUrls
ShouldBlockNetworkLoads(h, p) ==
  IF h.java_object_ = NoDelegate THEN FALSE ELSE p.blockNetworkLoads
ShouldAcceptThirdPartyCookies(h, p) ==
  IF h.java_object_ = NoDelegate THEN FALSE ELSE p.acceptThirdPartyCookies
\* OnReceivedResponseHeaders: TRUE when the delegate is notified.
OnReceivedResponseHeaders(h) == h.java_object_ # NoDelegate

\* ------------------------------------------------------------------- calls
\* A registry call the UI thread is to make, and the callback it comes from.
SetRfhCall(f, client, from) ==
  [op |-> "SetRfh", rfh |-> f, client |-> client, from |-> from]
EraseCall(f, from) ==
  [op |-> "Erase", rfh |-> f, client |-> DefaultClientData, from |-> from]

\* The label left in `last` by the step that completes an operation: the
\* operation, the frame it was about, the record it wrote, what Get by that
\* frame's id pair found before it, and the handle it returned (lookups).
Done(op, f, data, before) ==
  [op |-> op, rfh |-> f, data |-> data, before |-> before, handle |-> NoHandle]
Returned(op, f, h) ==
  [op |-> op, rfh |-> f, data |-> DefaultClientData, before |-> NotFound, handle |-> h]

\* A DCHECK / NOTREACHED that fires aborts the process in a build with DCHECKs
\* on and does nothing in a build without: the values `crashed` may take next.
Abort(fires) == IF fires THEN {TRUE, crashed} ELSE {crashed}

Init ==
  /\ rfh_to_io_thread_client_ = <<>>
  /\ frame_tree_node_to_io_thread_client_ = <<>>
  /\ map_lock_ = {}
  /\ frameState = [f \in Frames |-> "unborn"]
  /\ mainFrame = NoFrame
  /\ observers = <<>>
  /\ destroyed = FALSE
  /\ collected = {}
  /\ subFrameMsg = {}
  /\ uiCalls = <<>>
  /\ uiPc = "idle"
  /\ ioPc = "idle"
  /\ ioChild = NoFrame
  /\ ioClientData = DefaultClientData
  /\ failed = {}
  /\ crashed = FALSE
  /\ idSetBy = <<>>
  /\ registered = {}
  /\ erased = {}
  /\ last = Done("init", NoFrame, DefaultClientData, NotFound)

\* No operation completed in this step.
NoOp == Done("none", NoFrame, DefaultClientData, NotFound)

\* -------------------------------------------- UI thread: RfhToIoThreadClientMap
\* Set(RenderFrameHost*, client), first half: take map_lock_, write the
\* frame-tree-node entry and add the host.
UiSetRfhBegin ==
  /\ ~crashed /\ uiPc = "idle" /\ uiCalls # <<>>
  /\ Head(uiCalls).op = "SetRfh"
  /\ CanAcquire("ui")
  /\ map_lock_' = map_lock_ \cup {"ui"}
  /\ frame_tree_node_to_io_thread_client_' =
       SetNodeEntry(frame_tree_node_to_io_thread_client_,
                    GetFrameTreeNodeId(Head(uiCalls).rfh),
                    Head(uiCalls).rfh, Head(uiCalls).client)
  /\ uiPc' = "set_id"
  /\ last' = NoOp
  /\ UNCHANGED <<rfh_to_io_thread_client_, engineVars, collected, uiCalls,
                 ioVars, failed, crashed, histVars>>

\* Set(RenderFrameHost*, client), second half: write the HostIdPair entry and
\* leave the critical section.
UiSetRfhEnd ==
  /\ ~crashed /\ uiPc = "set_id"
  /\ rfh_to_io_thread_client_' =
       SetIdEntry(rfh_to_io_thread_client_,
                  GetRenderFrameHostIdPair(Head(uiCalls).rfh), Head(uiCalls).client)
  /\ map_lock_' = map_lock_ \ {"ui"}
  /\ uiCalls' = Tail(uiCalls)
  /\ uiPc' = "idle"
  /\ idSetBy' = [i \in DOMAIN idSetBy \cup {GetRenderFrameHostIdPair(Head(uiCalls).rfh)} |->
                   IF i = GetRenderFrameHostIdPair(Head(uiCalls).rfh)
                   THEN Head(uiCalls).rfh ELSE idSetBy[i]]
  /\ registered' = registered \cup {Head(uiCalls).rfh}
  /\ last' = Done(Head(uiCalls).from, Head(uiCalls).rfh, Head(uiCalls).client,
                  GetById(rfh_to_io_thread_client_,
                          GetRenderFrameHostIdPair(Head(uiCalls).rfh)))
  /\ UNCHANGED <<frame_tree_node_to_io_thread_client_, engineVars, collected,
                 ioVars, failed, crashed, erased>>

\* Erase(rfh), first part: take map_lock_, find (or make) the node's entry,
\* erase the host from its set, DCHECK(num_erased == 1).
UiEraseBegin ==
  /\ ~crashed /\ uiPc = "idle" /\ uiCalls # <<>>
  /\ Head(uiCalls).op = "Erase"
  /\ CanAcquire("ui")
  /\ map_lock_' = map_lock_ \cup {"ui"}
  /\ frame_tree_node_to_io_thread_client_' =
       EraseHost(frame_tree_node_to_io_thread_client_,
                 GetFrameTreeNodeId(Head(uiCalls).rfh), Head(uiCalls).rfh)
  /\ LET fires == NumErased(frame_tree_node_to_io_thread_client_,
                            GetFrameTreeNodeId(Head(uiCalls).rfh),
                            Head(uiCalls).rfh) # 1
     IN /\ failed' = IF fires THEN failed \cup {"Erase"} ELSE failed
        /\ crashed' \in Abort(fires)
  /\ uiPc' = "erase_node"
  /\ last' = NoOp
  /\ UNCHANGED <<rfh_to_io_thread_client_, engineVars, collected, uiCalls,
                 ioVars, histVars>>

\* Erase(rfh), second part: drop the node's entry when no host is left.
UiEraseNode ==
  /\ ~crashed /\ uiPc = "erase_node"
  /\ frame_tree_node_to_io_thread_client_' =
       EraseNodeIfEmpty(frame_tree_node_to_io_thread_client_,
                        GetFrameTreeNodeId(Head(uiCalls).rfh))
  /\ uiPc' = "erase_id"
  /\ last' = NoOp
  /\ UNCHANGED <<rfh_to_io_thread_client_, map_lock_, engineVars, collected,
                 uiCalls, ioVars, failed, crashed, histVars>>

\* Erase(rfh), last part: drop the HostIdPair entry and leave the critical
\* section.
UiEraseId ==
  /\ ~crashed /\ uiPc = "erase_id"
  /\ rfh_to_io_thread_client_' =
       EraseIdEntry(rfh_to_io_thread_client_,
                    GetRenderFrameHostIdPair(Head(uiCalls).rfh))
  /\ map_lock_' = map_lock_ \ {"ui"}
  /\ uiCalls' = Tail(uiCalls)
  /\ uiPc' = "idle"
  /\ idSetBy' = [i \in DOMAIN idSetBy \ {GetRenderFrameHostIdPair(Head(uiCalls).rfh)} |->
                   idSetBy[i]]
  /\ registered' = registered \ {Head(uiCalls).rfh}
  /\ erased' = erased \cup {Head(uiCalls).rfh}
  /\ last' = Done(Head(uiCalls).from, Head(uiCalls).rfh, DefaultClientData,
                  GetById(rfh_to_io_thread_client_,
                          GetRenderFrameHostIdPair(Head(uiCalls).rfh)))
  /\ UNCHANGED <<frame_tree_node_to_io_thread_client_, engineVars, collected,
                 ioVars, failed, crashed>>

\* ------------------------------------------------ UI thread: the entry points
UiIdle == ~crashed /\ ~destroyed /\ uiPc = "idle" /\ uiCalls = <<>>

\* XWalkContentsIoThreadClient::RegisterPendingContents(web_contents): Set by id
\* pair of the main frame, pending and with no delegate.  GetMainFrame() is
\* dereferenced unchecked: without a main frame the process dies.
RegisterPendingContents ==
  /\ UiIdle
  /\ IF mainFrame = NoFrame
     THEN /\ crashed' = TRUE
          /\ failed' = failed \cup {"nullptr"}
          /\ last' = NoOp
          /\ UNCHANGED <<regVars, map_lock_, histVars>>
     ELSE /\ CanAcquire("ui")
          /\ rfh_to_io_thread_client_' =
               SetIdEntry(rfh_to_io_thread_client_,
                          GetRenderFrameHostIdPair(mainFrame),
                          PendingClientData)
          /\ idSetBy' = [i \in DOMAIN idSetBy \ {GetRenderFrameHostIdPair(mainFrame)} |->
                           idSetBy[i]]
          /\ last' = Done("RegisterPendingContents", mainFrame, PendingClientData,
                          GetById(rfh_to_io_thread_client_,
                                  GetRenderFrameHostIdPair(mainFrame)))
          /\ UNCHANGED <<frame_tree_node_to_io_thread_client_, map_lock_,
                         failed, crashed, registered, erased>>
  /\ UNCHANGED <<engineVars, collected, uiVars, ioVars>>

\* XWalkContentsIoThreadClient::Associate(web_contents, jclient): a new
\* ClientMapEntryUpdater, whose constructor calls RenderFrameCreated on the
\* main frame when there is one.
Associate(d) ==
  /\ UiIdle
  /\ d \notin collected
  /\ Len(observers) < MaxObservers
  /\ observers' = Append(observers, d)
  /\ uiCalls' = IF mainFrame # NoFrame
                THEN <<SetRfhCall(mainFrame, ObserverClientData(d), "Associate")>>
                ELSE <<>>
  /\ last' = IF mainFrame # NoFrame THEN NoOp
              ELSE Done("Associate", NoFrame, ObserverClientData(d), NotFound)
  /\ UNCHANGED <<regVars, map_lock_, frameState, mainFrame, destroyed,
                 subFrameMsg, collected, uiPc, ioVars, failed, crashed,
                 histVars>>

\* The engine may create frame f now.
CanCreate(f) ==
  /\ frameState[f] = "unborn"
  /\ ParentOf(f) # NoFrame => frameState[ParentOf(f)] = "live"
  /\ f = "f2" => frameState["f1"] # "unborn"

\* The engine creates frame f: every attached ClientMapEntryUpdater gets
\* RenderFrameCreated(f) (Set(rfh, {jdelegate_, pending = false})), and the IO
\* thread is told of a new child frame.
RenderFrameCreated(f) ==
  /\ UiIdle
  /\ CanCreate(f)
  /\ frameState' = [frameState EXCEPT ![f] = "live"]
  /\ mainFrame' = IF ParentOf(f) = NoFrame /\ mainFrame = NoFrame THEN f ELSE mainFrame
  /\ subFrameMsg' = IF ParentOf(f) # NoFrame THEN subFrameMsg \cup {f} ELSE subFrameMsg
  /\ uiCalls' = [i \in 1..Len(observers) |->
                   SetRfhCall(f, ObserverClientData(observers[i]),
                              "RenderFrameCreated")]
  /\ last' = NoOp
  /\ UNCHANGED <<regVars, map_lock_, observers, destroyed, collected, uiPc,
                 ioVars, failed, crashed, histVars>>

\* The frames of the main node other than f that are live.
OtherMain(f) == {g \in Frames \ {f} : ParentOf(g) = NoFrame /\ frameState[g] = "live"}

\* The engine deletes frame f (its children are gone by then): every attached
\* ClientMapEntryUpdater gets RenderFrameDeleted(f) (Erase(rfh)).
RenderFrameDeleted(f) ==
  /\ UiIdle
  /\ frameState[f] = "live"
  /\ \A g \in Frames : ParentOf(g) = f => frameState[g] # "live"
  /\ frameState' = [frameState EXCEPT ![f] = "deleted"]
  /\ mainFrame' = IF f # mainFrame THEN mainFrame
                  ELSE IF OtherMain(f) = {} THEN NoFrame
                  ELSE CHOOSE g \in OtherMain(f) : TRUE
  /\ uiCalls' = [i \in 1..Len(observers) |-> EraseCall(f, "RenderFrameDeleted")]
  /\ last' = NoOp
  /\ UNCHANGED <<regVars, map_lock_, observers, destroyed, subFrameMsg,
                 collected, uiPc, ioVars, failed, crashed, histVars>>

\* ClientMapEntryUpdater::WebContentsDestroyed: delete this, for every observer.
\* The engine has deleted the frames by then.
WebContentsDestroyed ==
  /\ UiIdle
  /\ \A f \in Frames : frameState[f] # "live"
  /\ observers' = <<>>
  /\ destroyed' = TRUE
  /\ last' = Done("WebContentsDestroyed", NoFrame, DefaultClientData, NotFound)
  /\ UNCHANGED <<regVars, map_lock_, frameState, mainFrame, subFrameMsg,
                 collected, uiVars, ioVars, failed, crashed, histVars>>

\* The Java delegate d is garbage collected: every weak reference to it clears.
\* A running Associate holds its jclient strongly.
Collect(d) ==
  /\ ~crashed
  /\ d \notin collected
  /\ \A i \in 1..Len(uiCalls) :
       uiCalls[i].from = "Associate" => uiCalls[i].client.io_thread_client # d
  /\ collected' = collected \cup {d}
  /\ last' = NoOp
  /\ UNCHANGED <<regVars, map_lock_, engineVars, uiVars, ioVars, failed,
                 crashed, histVars>>

\* ------------------------------------------------------------------ IO thread
\* FromID(render_process_id, render_frame_id) with the id pair of frame f.
IoFromID(f) ==
  /\ ~crashed /\ ioPc = "idle"
  /\ CanAcquire("io")
  /\ LET h == FromID(rfh_to_io_thread_client_, GetRenderFrameHostIdPair(f), collected)
     IN /\ last' = Returned("FromID", f, h)
        /\ failed' = IF FromIDCheckHolds(h) THEN failed ELSE failed \cup {"FromID"}
        /\ crashed' \in Abort(~FromIDCheckHolds(h))
  /\ UNCHANGED <<regVars, map_lock_, engineVars, collected, uiVars, ioPc,
                 ioChild, ioClientData, histVars>>

\* FromID(frame_tree_node_id) with the node id of frame f.
IoFromFrameTreeNodeId(f) ==
  /\ ~crashed /\ ioPc = "idle"
  /\ CanAcquire("io")
  /\ LET h == FromFrameTreeNodeId(frame_tree_node_to_io_thread_client_,
                                  GetFrameTreeNodeId(f), collected)
     IN /\ last' = Returned("FromFrameTreeNodeId", f, h)
        /\ failed' = IF FromIDCheckHolds(h) THEN failed ELSE failed \cup {"FromID"}
        /\ crashed' \in Abort(~FromIDCheckHolds(h))
  /\ UNCHANGED <<regVars, map_lock_, engineVars, collected, uiVars, ioPc,
                 ioChild, ioClientData, histVars>>

\* SubFrameCreated's parent_rfh_id for child frame f: the child's process id
\* with the parent's routing id.
ParentIdPair(f) == <<ProcessId(f), RoutingId(ParentOf(f))>>

\* SubFrameCreated(pid, parent, child), first call: Get(parent_rfh_id,
\* &client_data); NOTREACHED() and return when the parent has no record.
IoSubFrameCreatedGet(f) ==
  /\ ~crashed /\ ioPc = "idle"
  /\ f \in subFrameMsg
  /\ CanAcquire("io")
  /\ subFrameMsg' = subFrameMsg \ {f}
  /\ LET got == GetById(rfh_to_io_thread_client_, ParentIdPair(f))
     IN IF got.found
        THEN /\ ioPc' = "sub_set"
             /\ ioChild' = f
             /\ ioClientData' = got.data
             /\ last' = NoOp
             /\ UNCHANGED <<failed, crashed>>
        ELSE /\ failed' = failed \cup {"NOTREACHED"}
             /\ crashed' \in Abort(TRUE)
             /\ last' = Done("SubFrameCreatedNotReached", f, DefaultClientData,
                             GetById(rfh_to_io_thread_client_,
                                     GetRenderFrameHostIdPair(f)))
             /\ UNCHANGED <<ioPc, ioChild, ioClientData>>
  /\ UNCHANGED <<regVars, map_lock_, frameState, mainFrame, observers,
                 destroyed, collected, uiVars, histVars>>

\* SubFrameCreated, second call: Set(child_rfh_id, client_data).
IoSubFrameCreatedSet ==
  /\ ~crashed /\ ioPc = "sub_set"
  /\ CanAcquire("io")
  /\ rfh_to_io_thread_client_' =
       SetIdEntry(rfh_to_io_thread_client_, GetRenderFrameHostIdPair(ioChild),
                  ioClientData)
  /\ idSetBy' = [i \in DOMAIN idSetBy \ {GetRenderFrameHostIdPair(ioChild)} |->
                   idSetBy[i]]
  /\ ioPc' = "idle"
  /\ ioChild' = NoFrame
  /\ ioClientData' = DefaultClientData
  /\ last' = Done("SubFrameCreated", ioChild, ioClientData,
                  GetById(rfh_to_io_thread_client_,
                          GetRenderFrameHostIdPair(ioChild)))
  /\ UNCHANGED <<frame_tree_node_to_io_thread_client_, map_lock_, engineVars,
                 collected, uiVars, failed, crashed,
                 registered, erased>>

\* ------------------------------------------------------------ specification
Next ==
  \/ UiSetRfhBegin
  \/ UiSetRfhEnd
  \/ UiEraseBegin
  \/ UiEraseNode
  \/ UiEraseId
  \/ RegisterPendingContents
  \/ \E d \in Delegates : Associate(d)
  \/ \E f \in Frames : RenderFrameCreated(f)
  \/ \E f \in Frames : RenderFrameDeleted(f)
  \/ WebContentsDestroyed
  \/ \E d \in Delegates : Collect(d)
  \/ \E f \in Frames : IoFromID(f)
  \/ \E f \in Frames : IoFromFrameTreeNodeId(f)
  \/ \E f \in Frames : IoSubFrameCreatedGet(f)
  \/ IoSubFrameCreatedSet

Spec == Init /\ [][Next]_vars

\* ------------------------------------------------------------------ claims
\* The frames a Set(rfh, client) wrote the HostIdPair entry of, by id pair,
\* each with the entry of its frame-tree node in place and the frame among
\* the node's hosts.
BothWritesVisible ==
  \A id \in DOMAIN idSetBy :
    /\ id \in DOMAIN rfh_to_io_thread_client_
    /\ GetFrameTreeNodeId(idSetBy[id]) \in DOMAIN frame_tree_node_to_io_thread_client_
    /\ idSetBy[id] \in
         frame_tree_node_to_io_thread_client_[GetFrameTreeNodeId(idSetBy[id])].first

\* The step that just completed is a Set(rfh, client).
SetByFrameJustDone == last.op \in {"Associate", "RenderFrameCreated"} /\ last.rfh # NoFrame

\* C1: Set(rfh, client) writes the frame-tree-node entry and the HostIdPair
\* entry in one critical section.  In every state in which a Get can run
\* (map_lock_ can be taken by the IO thread) no Set or Erase is half done, an id
\* entry written by Set(rfh) has its frame's node entry with the frame among
\* the hosts, and right after a Set(rfh, r) both entries hold r.
C1_SetByFrameAtomic ==
  CanAcquire("io") =>
    /\ uiPc = "idle"
    /\ BothWritesVisible
    /\ SetByFrameJustDone =>
         /\ rfh_to_io_thread_client_[GetRenderFrameHostIdPair(last.rfh)]
              = last.data
         /\ frame_tree_node_to_io_thread_client_[GetFrameTreeNodeId(last.rfh)].second
              = last.data

\* C1 witness: the IO thread's FromID found an entry that a Set(rfh) wrote,
\* while the UI thread is in a callback that has more registry writes to make.
C1_Witness ==
  /\ last.op = "FromID" /\ last.handle.found
  /\ GetRenderFrameHostIdPair(last.rfh) \in DOMAIN idSetBy
  /\ uiCalls # <<>>

\* The frames with a completed Set(rfh) and no completed Erase since, by node.
RegisteredIn(n) == {f \in registered : GetFrameTreeNodeId(f) = n}

\* C2: occupant-set accounting.  Whenever a Get can run, Get(frame_tree_node_id)
\* finds a record exactly when some frame registered under that node by
\* Set(rfh) has not been erased yet: with N frames registered, the entry
\* outlives each of the first N-1 Erase calls and is gone after the N-th.
C2_OccupantAccounting ==
  CanAcquire("io") =>
    \A n \in NodeIds :
      GetByNode(frame_tree_node_to_io_thread_client_, n).found <=> RegisteredIn(n) # {}

\* C2 witness: two frames were registered under node 1, Erase(f1) has just
\* completed, and the node's entry still resolves because f2 remains.
C2_Witness ==
  /\ last.op = "RenderFrameDeleted" /\ last.rfh = "f1"
  /\ uiCalls = <<>>
  /\ "f2" \in registered
  /\ GetByNode(frame_tree_node_to_io_thread_client_, 1).found

\* C3: outside a critical section every frame-tree-node entry has a host; an
\* entry goes away only in Erase's step that finds its hosts set empty, and
\* that step leaves no entry with an empty hosts set behind (the entry that
\* operator[] made for a node that had none included).
C3_NoEmptyNodeEntry ==
  /\ [](CanAcquire("io") =>
          \A n \in DOMAIN frame_tree_node_to_io_thread_client_ :
            frame_tree_node_to_io_thread_client_[n].first # {})
  /\ [][/\ \A n \in DOMAIN frame_tree_node_to_io_thread_client_ :
             n \notin DOMAIN frame_tree_node_to_io_thread_client_' =>
               /\ uiPc = "erase_node"
               /\ frame_tree_node_to_io_thread_client_[n].first = {}
        /\ (uiPc = "erase_node" /\ uiPc' = "erase_id") =>
             \A n \in DOMAIN frame_tree_node_to_io_thread_client_' :
               frame_tree_node_to_io_thread_client_'[n].first # {}]_vars

\* C3 witness: Erase is past its DCHECK on a node that had no entry: the entry
\* operator[] made (no hosts, default record) is there to be dropped.
C3_Witness ==
  /\ uiPc = "erase_node" /\ ~crashed
  /\ frame_tree_node_to_io_thread_client_[GetFrameTreeNodeId(Head(uiCalls).rfh)]
       = HostsAndClientDataPair({}, DefaultClientData)

\* pending_association implies an empty delegate reference.
PendingHasNoDelegate(data) == data.pending_association => data.io_thread_client = NoDelegate

\* C4: every IoThreadClientData stored in either map has pending_association
\* only with an empty delegate reference, and the DCHECK of the two FromID
\* overloads has never fired.
C4_PendingImpliesNoDelegate ==
  /\ \A id \in DOMAIN rfh_to_io_thread_client_ :
       PendingHasNoDelegate(rfh_to_io_thread_client_[id])
  /\ \A n \in DOMAIN frame_tree_node_to_io_thread_client_ :
       PendingHasNoDelegate(frame_tree_node_to_io_thread_client_[n].second)
  /\ "FromID" \notin failed

\* C4 witness: FromID by id pair has just returned a handle made from a
\* pending record while another id entry holds a delegate.
C4_Witness ==
  /\ last.op = "FromID"
  /\ last.handle.found /\ last.handle.pending_association_
  /\ \E id \in DOMAIN rfh_to_io_thread_client_ :
       rfh_to_io_thread_client_[id].io_thread_client # NoDelegate

\* The UI thread is between callbacks: no registry call is pending or running.
UiQuiet == uiPc = "idle" /\ uiCalls = <<>>

\* Frame f is gone and no other frame of its node is live.
DeletedSoleOccupant(f) ==
  /\ frameState[f] = "deleted"
  /\ \A g \in Frames \ {f} :
       GetFrameTreeNodeId(g) = GetFrameTreeNodeId(f) => frameState[g] # "live"

\* C5 (as claimed): a frame that was created and deleted with no delegate ever
\* associated (no ClientMapEntryUpdater was attached), the only occupant of its
\* node, is not found by its id pair nor by its frame-tree-node id once its
\* deletion has been handled.
C5_DeletedFrameNotFound ==
  (UiQuiet /\ ~destroyed /\ observers = <<>>) =>
    \A f \in Frames :
      DeletedSoleOccupant(f) =>
        /\ ~FromID(rfh_to_io_thread_client_, GetRenderFrameHostIdPair(f), collected).found
        /\ ~FromFrameTreeNodeId(frame_tree_node_to_io_thread_client_,
                                GetFrameTreeNodeId(f), collected).found

\* The handle forwards every query to the delegate: whatever the delegate's
\* policy p, each query answers what p says.
ForwardsTo(h, d) ==
  /\ h.java_object_ = d
  /\ \A p \in Policies :
       /\ GetCacheMode(h, p) = p.cacheMode
       /\ ShouldInterceptRequest(h, p) = p.intercept
       /\ ShouldBlockContentUrls(h, p) = p.blockContentUrls
       /\ ShouldBlockFileUrls(h, p) = p.blockFileUrls
       /\ ShouldBlockNetworkLoads(h, p) = p.blockNetworkLoads
       /\ ShouldAcceptThirdPartyCookies(h, p) = p.acceptThirdPartyCookies
       /\ OnReceivedResponseHeaders(h)

\* Every query of the handle answers its default, whatever a delegate would say.
AnswersDefaults(h) ==
  \A p \in Policies :
    /\ GetCacheMode(h, p) = "LOAD_DEFAULT"
    /\ ShouldInterceptRequest(h, p) = "absent"
    /\ ~ShouldBlockContentUrls(h, p)
    /\ ~ShouldBlockFileUrls(h, p)
    /\ ~ShouldBlockNetworkLoads(h, p)
    /\ ~ShouldAcceptThirdPartyCookies(h, p)

\* C6: right after Associate(web_contents, D) on a WebContents that has a main
\* frame, FromID by the main frame's id pair returns a handle that is not
\* pending and is bound to D, every query of which forwards to D.
C6_AssociateBindsMainFrame ==
  (last.op = "Associate" /\ last.rfh # NoFrame) =>
    LET h == FromID(rfh_to_io_thread_client_, GetRenderFrameHostIdPair(last.rfh),
                    collected)
    IN /\ last.rfh = mainFrame
       /\ h.found /\ ~h.pending_association_
       /\ ForwardsTo(h, last.data.io_thread_client)
       /\ last.data.io_thread_client \in Delegates

\* C6 witness: Associate has just completed on a main frame whose id entry was
\* the pending record of an earlier RegisterPendingContents.
C6_Witness ==
  /\ last.op = "Associate" /\ last.rfh # NoFrame
  /\ last.before.found /\ last.before.data.pending_association

\* C7: right after RegisterPendingContents(web_contents), FromID by the main
\* frame's id pair returns a pending handle with no delegate, and every query
\* of it answers its default.
C7_PendingHandleDefaults ==
  last.op = "RegisterPendingContents" =>
    LET h == FromID(rfh_to_io_thread_client_, GetRenderFrameHostIdPair(last.rfh),
                    collected)
    IN /\ last.rfh = mainFrame
       /\ h.found /\ h.pending_association_
       /\ h.java_object_ = NoDelegate
       /\ AnswersDefaults(h)
       /\ ~OnReceivedResponseHeaders(h)

\* C7 witness: RegisterPendingContents has just completed on a main frame.
C7_Witness ==
  /\ last.op = "RegisterPendingContents" /\ last.rfh = mainFrame
  /\ rfh_to_io_thread_client_[GetRenderFrameHostIdPair(mainFrame)] = PendingClientData

\* The step starts SubFrameCreated for child frame f.
SubFrameCreatedStarts(f) == f \in subFrameMsg /\ f \notin subFrameMsg'

\* C8: SubFrameCreated(pid, parent, child).  When the parent's id pair has a
\* record R, the child's id entry is R when the call completes and FromID by
\* the child's id pair returns R's handle; no step of the call touches any
\* other entry.  When the parent has no record, NOTREACHED is hit, the call
\* returns, and both maps are as they were.
C8_SubFrameCreated ==
  /\ [](last.op = "SubFrameCreated" =>
          /\ rfh_to_io_thread_client_[GetRenderFrameHostIdPair(last.rfh)] = last.data
          /\ FromID(rfh_to_io_thread_client_, GetRenderFrameHostIdPair(last.rfh),
                    collected)
               = MakeHandle([found |-> TRUE, data |-> last.data], collected))
  /\ [][\A f \in Frames :
          SubFrameCreatedStarts(f) =>
            /\ UNCHANGED regVars
            /\ IF ParentIdPair(f) \in DOMAIN rfh_to_io_thread_client_
               THEN /\ ioPc' = "sub_set" /\ ioChild' = f
                    /\ ioClientData' = rfh_to_io_thread_client_[ParentIdPair(f)]
                    /\ failed' = failed
               ELSE /\ ioPc' = "idle"
                    /\ "NOTREACHED" \in failed'
                    /\ last'.op = "SubFrameCreatedNotReached"]_vars
  /\ [][(ioPc = "sub_set" /\ ioPc' = "idle") =>
          /\ last'.op = "SubFrameCreated" /\ last'.rfh = ioChild
          /\ last'.data = ioClientData
          /\ frame_tree_node_to_io_thread_client_' = frame_tree_node_to_io_thread_client_
          /\ \A id \in DOMAIN rfh_to_io_thread_client_ \ {GetRenderFrameHostIdPair(ioChild)} :
               /\ id \in DOMAIN rfh_to_io_thread_client_'
               /\ rfh_to_io_thread_client_'[id] = rfh_to_io_thread_client_[id]]_vars

\* C8 witness: SubFrameCreated has just copied a pending parent record to the
\* child's id pair.
C8_Witness ==
  /\ last.op = "SubFrameCreated"
  /\ last.data = PendingClientData
  /\ FromID(rfh_to_io_thread_client_, GetRenderFrameHostIdPair(last.rfh),
            collected).pending_association_

\* C9 (as claimed): between UI callbacks every key of the HostIdPair map is the
\* id pair of a RenderFrameHost that is live.
C9_IdEntriesAreLiveFrames ==
  UiQuiet =>
    \A id \in DOMAIN rfh_to_io_thread_client_ :
      \E f \in Frames : GetRenderFrameHostIdPair(f) = id /\ frameState[f] = "live"

\* C10 (as claimed): between UI callbacks, for every live frame with an entry
\* under its id pair and an entry under its frame-tree-node id, the two Gets
\* return the same record.
C10_MapsAgree ==
  UiQuiet =>
    \A f \in Frames :
      (/\ frameState[f] = "live"
       /\ GetById(rfh_to_io_thread_client_, GetRenderFrameHostIdPair(f)).found
       /\ GetByNode(frame_tree_node_to_io_thread_client_, GetFrameTreeNodeId(f)).found)
      => GetById(rfh_to_io_thread_client_, GetRenderFrameHostIdPair(f)).data
           = GetByNode(frame_tree_node_to_io_thread_client_, GetFrameTreeNodeId(f)).data

\* The step is the one in which Erase(rfh) erases the host and makes its DCHECK.
EraseChecks == uiPc = "idle" /\ uiPc' = "erase_node"

\* C11: Erase(rfh)'s DCHECK(num_erased == 1) fires exactly when rfh is not
\* among the hosts of its frame-tree node when Erase is called (with rfh among
\* them nothing is recorded and nothing aborts), and when Erase returns, fired
\* or not, rfh's id pair has no entry.
C11_EraseDcheckAndIdEntry ==
  /\ [](last.op = "RenderFrameDeleted" =>
          ~GetById(rfh_to_io_thread_client_, GetRenderFrameHostIdPair(last.rfh)).found)
  /\ [][EraseChecks =>
          LET f == Head(uiCalls).rfh
              n == GetFrameTreeNodeId(f)
              present == /\ n \in DOMAIN frame_tree_node_to_io_thread_client_
                         /\ f \in frame_tree_node_to_io_thread_client_[n].first
          IN IF present
             THEN failed' = failed /\ crashed' = crashed
             ELSE failed' = failed \cup {"Erase"}]_vars

\* C11 witness: an Erase whose DCHECK fired (the frame was never registered by
\* Set(rfh)) is about to remove an id entry that the frame does have.
C11_Witness ==
  /\ uiPc = "erase_id" /\ ~crashed
  /\ "Erase" \in failed
  /\ Head(uiCalls).rfh \notin registered
  /\ GetById(rfh_to_io_thread_client_,
             GetRenderFrameHostIdPair(Head(uiCalls).rfh)).found

\* The record's delegate reference is empty or its referent was collected.
DelegateAbsent(data) ==
  data.io_thread_client = NoDelegate \/ data.io_thread_client \in collected

\* The handle exists, answers every query with its default whatever a delegate
\* would say, and skips the response-headers notification.
FailsSafe(h) == h.found /\ AnswersDefaults(h) /\ ~OnReceivedResponseHeaders(h)

\* C12: a FromID whose key (id pair or frame-tree-node id) has no entry returns
\* no handle; a FromID whose record has an empty delegate reference, or one
\* whose delegate was collected before the lookup, returns a handle on which
\* every query answers its default and OnReceivedResponseHeaders does nothing,
\* the delegate not being asked.
C12_FailSafeLookups ==
  /\ last.op = "FromID" =>
       LET id == GetRenderFrameHostIdPair(last.rfh)
       IN IF id \notin DOMAIN rfh_to_io_thread_client_
          THEN last.handle = NoHandle
          ELSE DelegateAbsent(rfh_to_io_thread_client_[id]) => FailsSafe(last.handle)
  /\ last.op = "FromFrameTreeNodeId" =>
       LET n == GetFrameTreeNodeId(last.rfh)
       IN IF n \notin DOMAIN frame_tree_node_to_io_thread_client_
          THEN last.handle = NoHandle
          ELSE DelegateAbsent(frame_tree_node_to_io_thread_client_[n].second)
                 => FailsSafe(last.handle)

\* C12 witness: FromID by frame-tree-node id has just returned a handle for a
\* record whose delegate had been collected, while a lookup by another frame's
\* id pair finds nothing.
C12_Witness ==
  /\ last.op = "FromFrameTreeNodeId" /\ last.handle.found
  /\ frame_tree_node_to_io_thread_client_[GetFrameTreeNodeId(last.rfh)].second.io_thread_client
       \in collected
  /\ last.handle.java_object_ = NoDelegate
  /\ \E f \in Frames : GetRenderFrameHostIdPair(f) \notin DOMAIN rfh_to_io_thread_client_

\* The records a caller can pass to Set(rfh_id, client).
ClientDatas ==
  {PendingClientData, DefaultClientData} \cup {ObserverClientData(d) : d \in Delegates}

\* The step completes a Set(rfh_id, client) made through the id pair only.
SetByIdJustDone == last.op \in {"RegisterPendingContents", "SubFrameCreated"}

\* The step wrote the id map (or is the first): each value the id map takes in
\* a behaviour is first seen in such a state.
IdMapJustWritten ==
  last.op \in {"init", "Associate", "RenderFrameCreated", "RenderFrameDeleted",
               "RegisterPendingContents", "SubFrameCreated"}

\* C13: Set(rfh_id, client) is idempotent.  From every registry state, for every
\* id pair and record, a second Set with the same arguments leaves the id map
\* (hence every lookup by id pair) as the first left it; and when the program
\* has just made such a write, making it again would change neither map.
C13_SetByIdIdempotent ==
  /\ IdMapJustWritten =>
       \A id \in IdPairs, client \in ClientDatas :
         SetIdEntry(SetIdEntry(rfh_to_io_thread_client_, id, client), id, client)
           = SetIdEntry(rfh_to_io_thread_client_, id, client)
  /\ SetByIdJustDone =>
       /\ SetIdEntry(rfh_to_io_thread_client_,
                     GetRenderFrameHostIdPair(last.rfh), last.data)
            = rfh_to_io_thread_client_
       /\ GetById(rfh_to_io_thread_client_,
                  GetRenderFrameHostIdPair(last.rfh)) = [found |-> TRUE, data |-> last.data]

\* C13 witness: RegisterPendingContents has just written the pending record over
\* an entry that already held it, with other entries in the map.
C13_Witness ==
  /\ last.op = "RegisterPendingContents"
  /\ last.before = [found |-> TRUE, data |-> PendingClientData]
  /\ \E j \in DOMAIN rfh_to_io_thread_client_ : j # GetRenderFrameHostIdPair(last.rfh)

\* The frames the earliest attached ClientMapEntryUpdater has had
\* RenderFrameCreated for and no RenderFrameDeleted since, between callbacks:
\* every frame any observer was told of, it was told of too.
ObservedLive == {f \in registered : frameState[f] = "live"}

\* The hosts of each frame-tree-node entry are the observed live frames of the node.
HostsAreObservedLive ==
  \A n \in NodeIds :
    NodeEntry(frame_tree_node_to_io_thread_client_, n).first
      = {f \in ObservedLive : GetFrameTreeNodeId(f) = n}

AttachedClientDatas ==
  {ObserverClientData(observers[i]) : i \in 1..Len(observers)}

C15_SetByIdTouchesOneKey ==
  /\ [](\A id \in IdPairs, client \in ClientDatas :
          \A j \in IdPairs \ {id} :
            GetById(SetIdEntry(rfh_to_io_thread_client_, id, client), j)
              = GetById(rfh_to_io_thread_client_, j))
  /\ [][last'.op \in {"RegisterPendingContents", "SubFrameCreated"} =>
          /\ frame_tree_node_to_io_thread_client_' = frame_tree_node_to_io_thread_client_
          /\ \A j \in IdPairs \ {GetRenderFrameHostIdPair(last'.rfh)} :
               GetById(rfh_to_io_thread_client_', j)
                 = GetById(rfh_to_io_thread_client_, j)
          /\ GetById(rfh_to_io_thread_client_', GetRenderFrameHostIdPair(last'.rfh))
               = [found |-> TRUE, data |-> last'.data]
          /\ FromFrameTreeNodeId(frame_tree_node_to_io_thread_client_',
                                 GetFrameTreeNodeId(last'.rfh), collected')
               = FromFrameTreeNodeId(frame_tree_node_to_io_thread_client_,
                                     GetFrameTreeNodeId(last'.rfh), collected)]_vars

\* C15 witness: RegisterPendingContents has just made the main frame's id-pair
\* entry pending while another frame has an id-pair entry and the main frame's
\* node still resolves to the delegate bound before.
C15_Witness ==
  /\ last.op = "RegisterPendingContents"
  /\ last.before.found /\ last.before.data # PendingClientData
  /\ \E j \in DOMAIN rfh_to_io_thread_client_ : j # GetRenderFrameHostIdPair(last.rfh)
  /\ FromFrameTreeNodeId(frame_tree_node_to_io_thread_client_,
                         GetFrameTreeNodeId(last.rfh), collected).java_object_ \in Delegates
  /\ FromID(rfh_to_io_thread_client_, GetRenderFrameHostIdPair(last.rfh),
            collected).pending_association_

\* C16 (as claimed): every RenderFrameDeleted(f) in a behaviour follows the
\* engine's creation of f (the engine deletes live frames only), Associate may
\* come when child frames are already live and may come more than once; the
\* DCHECK(num_erased == 1) of Erase never fails.
C16_EraseDcheckNeverFails == "Erase" \notin failed

\* C17 (as claimed): SubFrameCreated is atomic: the record it stores for the
\* child is the record the parent has in rfh_to_io_thread_client_ in the state
\* immediately before the child's Set.
C17_SubFrameCreatedAtomic ==
  [][last'.op = "SubFrameCreated" =>
       /\ ParentIdPair(last'.rfh) \in DOMAIN rfh_to_io_thread_client_
       /\ rfh_to_io_thread_client_[ParentIdPair(last'.rfh)] = last'.data]_vars

\* C17 (amended): SubFrameCreated is a Get and a Set, each atomic under
\* map_lock_ but with the lock released in between.  The record stored for the
\* child is the one the parent had when Get read it: Get copies the parent's
\* record into client_data, client_data does not change while the Set is
\* outstanding, and the Set stores it under the child's id pair.
C17_SubFrameCreatedCopiesReadRecord ==
  /\ [][(ioPc = "idle" /\ ioPc' = "sub_set") =>
          /\ CanAcquire("io")
          /\ ParentIdPair(ioChild') \in DOMAIN rfh_to_io_thread_client_
          /\ ioClientData' = rfh_to_io_thread_client_[ParentIdPair(ioChild')]]_vars
  /\ [][(ioPc = "sub_set" /\ ioPc' = "sub_set") =>
          (ioClientData' = ioClientData /\ ioChild' = ioChild)]_vars
  /\ [][(ioPc = "sub_set" /\ ioPc' = "idle") =>
          /\ CanAcquire("io")
          /\ last'.op = "SubFrameCreated" /\ last'.rfh = ioChild
          /\ last'.data = ioClientData
          /\ rfh_to_io_thread_client_'[GetRenderFrameHostIdPair(ioChild)] = ioClientData]_vars

\* C17 witness: SubFrameCreated has just stored for the child a record that the
\* parent no longer has: the UI thread wrote the parent's entry between the Get
\* and the Set.
C17_Witness ==
  /\ last.op = "SubFrameCreated"
  /\ ParentIdPair(last.rfh) \in DOMAIN rfh_to_io_thread_client_
  /\ rfh_to_io_thread_client_[ParentIdPair(last.rfh)] # last.data
  /\ rfh_to_io_thread_client_[GetRenderFrameHostIdPair(last.rfh)] = last.data

\* The frames that have a parent frame.
ChildFrames == {f \in Frames : ParentOf(f) # NoFrame}

\* C18 (as claimed): under every interleaving of SubFrameCreated with the UI
\* thread's callbacks, a child frame that a ClientMapEntryUpdater registered by
\* RenderFrameCreated and that is live resolves by id pair to the non-pending
\* record of an attached observer's delegate, and a child frame whose
\* RenderFrameDeleted has completed has no id-pair entry: SubFrameCreated
\* neither replaces the observer's record nor re-creates an erased entry.
C18_ObserverRecordSurvivesSubFrameCreated ==
  \A f \in ChildFrames :
    LET got == GetById(rfh_to_io_thread_client_, GetRenderFrameHostIdPair(f))
    IN /\ (f \in registered /\ frameState[f] = "live") =>
            (got.found /\ got.data \in AttachedClientDatas)
       /\ (UiQuiet /\ f \in erased /\ frameState[f] = "deleted") => ~got.found

\* Nothing is outstanding: no callback pending or running on the UI thread, no
\* SubFrameCreated message in flight or half done.
Quiescent ==
  /\ ~crashed /\ UiQuiet
  /\ subFrameMsg = {} /\ ioPc = "idle"

\* One Associate has bound the live main-node frames to its delegate and no
\* RegisterPendingContents has unbound them since.
AssociatedOnce ==
  /\ Len(observers) = 1
  /\ \E f \in Frames : ParentOf(f) = NoFrame /\ frameState[f] = "live"
  /\ \A f \in Frames :
       (ParentOf(f) = NoFrame /\ frameState[f] = "live") =>
         GetById(rfh_to_io_thread_client_, GetRenderFrameHostIdPair(f))
           = [found |-> TRUE, data |-> ObserverClientData(observers[1])]

\* C19 (as claimed): after RegisterPendingContents and then Associate(D), once
\* every outstanding RenderFrameCreated and SubFrameCreated has been delivered,
\* no live frame (main frame, child that was live before Associate, child whose
\* record SubFrameCreated copied from the pending parent) has a pending record
\* under its id pair.
C19_NoPendingAfterAssociate ==
  (Quiescent /\ AssociatedOnce) =>
    \A f \in Frames :
      frameState[f] = "live" =>
        ~GetById(rfh_to_io_thread_client_,
                 GetRenderFrameHostIdPair(f)).data.pending_association

====
